---------------------------- MODULE Spec2Model ----------------------------
(***************************************************************************)
(* Model of format-sudoku-simple.py: a filter that reads integers, one per *)
(* line, from standard input, groups them into grids of 81 cells delimited *)
(* by the marker values 100 and 200, and prints the first two grids as     *)
(* 9x9 tables.                                                             *)
(*                                                                         *)
(* Text is modelled as sequences of one-character strings, so that         *)
(* line.strip(), int(line) and the f-string formatting are computed and    *)
(* not assumed.                                                            *)
(***************************************************************************)
EXTENDS Integers, Sequences, FiniteSets, TLC

(***************************************************************************)
(* Program constants.                                                      *)
(***************************************************************************)
GridSize == 81

Side == 9

BlockSide == 3

Marker100 == 100

Marker200 == 200

\* sys.int_info.default_max_str_digits: the longest literal int() converts.
MaxStrDigits == 4300

RuleLen == 37

SepLen == 35

FieldWidth == 2

(***************************************************************************)
(* Bound of the model: the number of writes the upstream producer makes    *)
(* to the pipe before it closes it.                                        *)
(***************************************************************************)
MaxWrites == 4

(***************************************************************************)
(* Text.  A character is its Unicode code point and a text is a sequence   *)
(* of code points, so that the whitespace str.strip() removes and the      *)
(* decimal digits int() accepts are those of Python (Unicode 14, CPython   *)
(* 3.11).  Ord and Text turn the ASCII literals of this module into code   *)
(* points.                                                                 *)
(***************************************************************************)
Lower ==
    <<"a", "b", "c", "d", "e", "f", "g", "h", "i", "j", "k", "l", "m",
      "n", "o", "p", "q", "r", "s", "t", "u", "v", "w", "x", "y", "z">>

Numerals == <<"0", "1", "2", "3", "4", "5", "6", "7", "8", "9">>

\* ord(c) for the ASCII characters this module writes as one-character
\* strings.
Ord(c) ==
    CASE c = "\t" -> 9
      [] c = "\n" -> 10
      [] c = "\f" -> 12
      [] c = "\r" -> 13
      [] c = " "  -> 32
      [] c = "+"  -> 43
      [] c = "-"  -> 45
      [] c = "."  -> 46
      [] c = "="  -> 61
      [] c = "_"  -> 95
      [] c = "|"  -> 124
      [] \E i \in 1..10 : Numerals[i] = c
                  -> 47 + (CHOOSE i \in 1..10 : Numerals[i] = c)
      [] OTHER    -> 96 + (CHOOSE i \in 1..26 : Lower[i] = c)

Text(s) == [i \in 1..Len(s) |-> Ord(s[i])]

Space == Ord(" ")

Newline == Ord("\n")

FormFeed == Ord("\f")

Plus == Ord("+")

Minus == Ord("-")

Underscore == Ord("_")

Dot == Ord(".")

Bar == Ord("|")

AsciiZero == Ord("0")

\* The characters str.strip() removes: those with str.isspace() true.
Whitespace ==
    (9..13) \cup (28..32) \cup {133, 160, 5760} \cup (8192..8202)
        \cup {8232, 8233, 8239, 8287, 12288}

\* The characters int() skips around a literal: the C isspace() characters
\* and the non-ASCII Unicode spaces, not the separators 28..31.
IntWhitespace == (9..13) \cup {Space} \cup {c \in Whitespace : c > 127}

\* The digit zero of every Unicode decimal digit range (category Nd); the
\* digits 0..9 of a range are consecutive code points.
DigitZeros ==
    {48, 1632, 1776, 1984, 2406, 2534, 2662, 2790, 2918, 3046, 3174, 3302,
     3430, 3558, 3664, 3792, 3872, 4160, 4240, 6112, 6160, 6470, 6608,
     6784, 6800, 6992, 7088, 7232, 7248, 42528, 43216, 43264, 43472, 43504,
     43600, 44016, 65296, 66720, 68912, 69734, 69872, 69942, 70096, 70384,
     70736, 70864, 71248, 71360, 71472, 71904, 72016, 72784, 73040, 73120,
     92768, 92864, 93008, 120782, 120792, 120802, 120812, 120822, 123200,
     123632, 125264, 130032}

\* "int() reads c as a decimal digit"
IsDigit(c) == \E z \in DigitZeros : c >= z /\ c <= z + 9

DigitVal(c) == c - (CHOOSE z \in DigitZeros : c >= z /\ c <= z + 9)

SetMin(S) == CHOOSE x \in S : \A y \in S : x <= y

SetMax(S) == CHOOSE x \in S : \A y \in S : x >= y

\* The text without its leading and trailing characters of the set ws.
StripOf(s, ws) ==
    LET keep == {i \in 1..Len(s) : s[i] \notin ws}
    IN  IF keep = {} THEN <<>> ELSE SubSeq(s, SetMin(keep), SetMax(keep))

\* str.strip()
strip(s) == StripOf(s, Whitespace)

\* The value of a string of digits and underscores (underscores skipped).
RECURSIVE DigitsValue(_)
DigitsValue(s) ==
    IF s = <<>> THEN 0
    ELSE LET front == SubSeq(s, 1, Len(s) - 1)
             last  == s[Len(s)]
         IN  IF last = Underscore THEN DigitsValue(front)
             ELSE 10 * DigitsValue(front) + DigitVal(last)

\* The digits part of a decimal literal int() accepts: digits, with single
\* underscores only between digits.
IsDigitsBody(b) ==
    /\ Len(b) > 0
    /\ \A i \in 1..Len(b) : IsDigit(b[i]) \/ b[i] = Underscore
    /\ IsDigit(b[1])
    /\ IsDigit(b[Len(b)])
    /\ \A i \in 1..(Len(b) - 1) : ~(b[i] = Underscore /\ b[i + 1] = Underscore)

\* The number of digits of a digits body, underscores not counted.
DigitCount(b) == Cardinality({i \in 1..Len(b) : b[i] # Underscore})

\* int(text): [ok |-> TRUE, val |-> n], or ok = FALSE where Python raises
\* ValueError: no literal, or one of more than 4300 digits.  int() skips
\* the whitespace around the literal and accepts one ASCII sign.
ParseInt(text) ==
    LET s      == StripOf(text, IntWhitespace)
        signed == Len(s) > 0 /\ s[1] \in {Plus, Minus}
        body   == IF signed THEN SubSeq(s, 2, Len(s)) ELSE s
    IN  IF IsDigitsBody(body) /\ DigitCount(body) <= MaxStrDigits
        THEN [ok |-> TRUE,
              val |-> IF signed /\ s[1] = Minus THEN 0 - DigitsValue(body)
                      ELSE DigitsValue(body)]
        ELSE [ok |-> FALSE, val |-> 0]

\* str(n) for n >= 0.
RECURSIVE Str(_)
Str(n) ==
    IF n < 10 THEN <<AsciiZero + n>>
    ELSE Str(n \div 10) \o <<AsciiZero + (n % 10)>>

\* n copies of the character c.
Repeat(c, n) == [i \in 1..n |-> c]

\* format(text, ">w"): right-aligned in a field of width w, never cut.
RightAlign(text, w) ==
    IF Len(text) >= w THEN text ELSE Repeat(Space, w - Len(text)) \o text

(***************************************************************************)
(* print_grid.  A printed line is a text without its line end.             *)
(***************************************************************************)
\* The initial label (Nachal'naya setka:), in Cyrillic.
LabelInitial ==
    <<1053, 1072, 1095, 1072, 1083, 1100, 1085, 1072, 1103, 32, 1089, 1077,
      1090, 1082, 1072, 58>>

\* The solved label (Reshennaya setka:), in Cyrillic.
LabelSolved ==
    <<1056, 1077, 1096, 1077, 1085, 1085, 1072, 1103, 32, 1089, 1077, 1090,
      1082, 1072, 58>>

\* The note that the solved grid was not found, in Cyrillic.
NoteText ==
    <<1055, 1088, 1080, 1084, 1077, 1095, 1072, 1085, 1080, 1077, 58, 32,
      1056, 1077, 1096, 1077, 1085, 1085, 1072, 1103, 32, 1089, 1077, 1090,
      1082, 1072, 32, 1085, 1077, 32, 1085, 1072, 1081, 1076, 1077, 1085,
      1072>>

RuleLine == Repeat(Ord("="), RuleLen)

SepLine == Repeat(Minus, SepLen)

\* DisplayVal with the zero not replaced by the placeholder.
DisplayValKeepZero(grid, idx) ==
    IF idx < Len(grid) THEN Str(grid[idx + 1]) ELSE <<Dot>>

\* display_val of the cell at row-major index idx (0-based), as text.
DisplayVal(grid, idx) ==
    IF idx < Len(grid)
    THEN IF grid[idx + 1] = 0 THEN <<Dot>> ELSE Str(grid[idx + 1])
    ELSE <<Dot>>

\* What the inner loop adds to row_str for column j of row i.
CellText(grid, i, j) ==
    (IF j > 0 /\ j % BlockSide = 0 THEN <<Bar, Space>> ELSE <<>>)
        \o RightAlign(DisplayVal(grid, i * Side + j), FieldWidth) \o <<Space>>

\* row_str after columns 0..j-1 of row i.
RECURSIVE RowPrefix(_, _, _)
RowPrefix(grid, i, j) ==
    IF j = 0 THEN <<Bar, Space>>
    ELSE RowPrefix(grid, i, j - 1) \o CellText(grid, i, j - 1)

RowText(grid, i) == RowPrefix(grid, i, Side) \o <<Bar>>

\* The lines printed for rows 0..i-1, separators included.
RECURSIVE RowLines(_, _)
RowLines(grid, i) ==
    IF i = 0 THEN <<>>
    ELSE RowLines(grid, i - 1)
             \o (IF i - 1 > 0 /\ (i - 1) % BlockSide = 0 THEN <<SepLine>> ELSE <<>>)
             \o <<RowText(grid, i - 1)>>

\* Everything print_grid(label, grid) prints, line by line.
print_grid(label, grid) ==
    <<<<>>, RuleLine, label, RuleLine>>
        \o RowLines(grid, Side)
        \o <<RuleLine, <<>>>>

(***************************************************************************)
(* The input.  The upstream producer writes to the pipe in blocks: a       *)
(* marker line, a group of noise lines, or a run of cell lines.  The k-th  *)
(* line of the stream, when it is a cell line, carries CellVal(k), written *)
(* in one of six styles the script accepts.                                *)
(***************************************************************************)
CellVal(k) == (37 * k + 11) % 100

\* The ASCII digits of text as Arabic-Indic digits (U+0660..U+0669).
ArabicIndic(text) == [i \in 1..Len(text) |-> 1632 + (text[i] - AsciiZero)]

Styled(text, k) ==
    CASE k % 6 = 0 -> text \o <<Newline>>
      [] k % 6 = 1 -> <<Space>> \o text \o <<Space, Newline>>
      [] k % 6 = 2 -> <<Plus>> \o text \o <<Newline>>
      [] k % 6 = 3 -> <<AsciiZero>> \o text \o <<Newline>>
      [] k % 6 = 4 -> <<FormFeed>> \o text \o <<31, Newline>>
      [] OTHER     -> <<160>> \o ArabicIndic(text) \o <<Newline>>

CellLine(k) == Styled(Str(CellVal(k)), k)

NoiseLines ==
    << Text(<<"h", "e", "l", "l", "o", "\n">>),
       Text(<<"-", "1", "\n">>),
       Text(<<"1", "5", "0", "\n">>),
       <<Newline>>,
       <<FormFeed, 160, 31, Newline>>,
       <<Minus, 1635, Newline>> >>

Blocks == {"m100", "m200", "noise", "r1", "r80", "r81"}

RunBlocks == {"r1", "r80", "r81"}

BlockLen(b) ==
    CASE b = "m100"  -> 1
      [] b = "m200"  -> 1
      [] b = "noise" -> Len(NoiseLines)
      [] b = "r1"    -> 1
      [] b = "r80"   -> GridSize - 1
      [] b = "r81"   -> GridSize

\* The lines of block b when off lines were written before it.
BlockLines(b, off) ==
    CASE b = "m100"  -> <<Styled(Str(Marker100), off + 1)>>
      [] b = "m200"  -> <<Styled(Str(Marker200), off + 1)>>
      [] b = "noise" -> NoiseLines
      [] OTHER       -> [i \in 1..BlockLen(b) |-> CellLine(off + i)]

RECURSIVE LinesWritten(_)
LinesWritten(w) ==
    IF w = <<>> THEN 0
    ELSE LinesWritten(SubSeq(w, 1, Len(w) - 1)) + BlockLen(w[Len(w)])

(***************************************************************************)
(* State.                                                                  *)
(*   stdin         lines written to the pipe and not yet read              *)
(*   written       the blocks the producer has written so far              *)
(*   pc            position in format_sudoku                               *)
(*   current_grid  the accumulation buffer                                 *)
(*   grids         the grid collection                                     *)
(*   out           standard output, line by line                           *)
(*   origin        for each grid of the collection, the statement that     *)
(*                 appended it                                             *)
(*   seen200       for each marker 200 read, its line number in the input  *)
(*                 and the number of grids collected when it was read      *)
(*   call          the arguments of a stand-alone print_grid call          *)
(***************************************************************************)
VARIABLES stdin, written, pc, current_grid, grids, out, origin, seen200, call

vars == <<stdin, written, pc, current_grid, grids, out, origin, seen200, call>>

NoCall == [label |-> <<>>, grid |-> <<>>]

Init ==
    /\ stdin = <<>>
    /\ written = <<>>
    /\ pc = "loop"
    /\ current_grid = <<>>
    /\ grids = <<>>
    /\ out = <<>>
    /\ origin = <<>>
    /\ seen200 = <<>>
    /\ call = NoCall

\* The producer writes one more block to the empty pipe.
Write(b) ==
    /\ pc = "loop"
    /\ stdin = <<>>
    /\ Len(written) < MaxWrites
    /\ stdin' = BlockLines(b, LinesWritten(written))
    /\ written' = Append(written, b)
    /\ UNCHANGED <<pc, current_grid, grids, out, origin, seen200, call>>

\* list[:n]
Slice(g, n) == SubSeq(g, 1, IF Len(g) < n THEN Len(g) ELSE n)

\* "current_grid and len(current_grid) >= 81"
Complete(g) == g # <<>> /\ Len(g) >= GridSize

\* GridFull with the row length in place of the grid length.
GridFullAtSide(g) == Len(g) >= Side

\* GridFull one value early.
GridFullEarly(g) == Len(g) >= GridSize - 1

\* GridFull with > in place of >=.
GridFullLate(g) == Len(g) > GridSize

\* "len(current_grid) >= 81", tested after each append
GridFull(g) == Len(g) >= GridSize

\* IsOtherMarker that lets the values between the two markers through.
IsOtherMarkerAbove200(num) == num < 0 \/ num > Marker200

\* "num < 0 or (num >= 100 and num != 200)"
IsOtherMarker(num) == num < 0 \/ (num >= 100 /\ num # Marker200)

\* The result of one iteration: the buffer, the collection, the origins and
\* the branch taken.
Result(cg, gs, og, br) == [cg |-> cg, gs |-> gs, og |-> og, br |-> br]

\* On100 with the completeness test of the other flush points.
On100Checked(cg, gs, og) ==
    IF Complete(cg)
    THEN Result(<<>>, Append(gs, Slice(cg, GridSize)), Append(og, "marker100"), "m100")
    ELSE Result(<<>>, gs, og, "m100")

\* "if num == 100": flush the buffer as it is, if it holds anything.
On100(cg, gs, og) ==
    IF cg # <<>>
    THEN Result(<<>>, Append(gs, cg), Append(og, "marker100"), "m100")
    ELSE Result(<<>>, gs, og, "m100")

\* On200 that forgets to empty the buffer when it does not flush.
On200KeepBuffer(cg, gs, og) ==
    IF Complete(cg)
    THEN Result(<<>>, Append(gs, Slice(cg, GridSize)), Append(og, "marker200"), "m200")
    ELSE Result(cg, gs, og, "m200")

\* "if num == 200": flush the buffer if it is complete, empty it anyway.
On200(cg, gs, og) ==
    IF Complete(cg)
    THEN Result(<<>>, Append(gs, Slice(cg, GridSize)), Append(og, "marker200"), "m200")
    ELSE Result(<<>>, gs, og, "m200")

\* OnCell that forgets to empty the buffer after a flush.
OnCellKeepBuffer(num, cg, gs, og) ==
    LET appended == Append(cg, num)
    IN  IF GridFull(appended)
        THEN Result(appended, Append(gs, Slice(appended, GridSize)), Append(og, "cell"), "cell")
        ELSE Result(appended, gs, og, "cell")

\* An ordinary number: append it, and flush the buffer once it is full.
OnCell(num, cg, gs, og) ==
    LET appended == Append(cg, num)
    IN  IF GridFull(appended)
        THEN Result(<<>>, Append(gs, Slice(appended, GridSize)), Append(og, "cell"), "cell")
        ELSE Result(appended, gs, og, "cell")

\* The body of "for line in sys.stdin" applied to one line of text.
Process(text, cg, gs, og) ==
    LET line == strip(text)
        p    == ParseInt(line)
    IN  IF line = <<>> THEN Result(cg, gs, og, "blank")
        ELSE IF ~p.ok THEN Result(cg, gs, og, "error")
        ELSE IF p.val = Marker100 THEN On100(cg, gs, og)
        ELSE IF p.val = Marker200 THEN On200(cg, gs, og)
        ELSE IF IsOtherMarker(p.val) THEN Result(cg, gs, og, "other")
        ELSE OnCell(p.val, cg, gs, og)

\* The number of input lines read so far.
LinesRead == LinesWritten(written) - Len(stdin)

\* One iteration of "for line in sys.stdin".
ReadLine ==
    /\ pc = "loop"
    /\ stdin # <<>>
    /\ stdin' = Tail(stdin)
    /\ LET r == Process(Head(stdin), current_grid, grids, origin)
       IN  /\ current_grid' = r.cg
           /\ grids' = r.gs
           /\ origin' = r.og
           /\ seen200' = IF r.br = "m200"
                         THEN Append(seen200, [pos |-> LinesRead + 1, ngrids |-> Len(r.gs)])
                         ELSE seen200
    /\ UNCHANGED <<written, pc, out, call>>

\* The pipe is closed and empty: the loop ends and the last buffer is
\* flushed if it is complete.
EndOfInput ==
    /\ pc = "loop"
    /\ stdin = <<>>
    /\ IF Complete(current_grid)
       THEN /\ grids' = Append(grids, Slice(current_grid, GridSize))
            /\ origin' = Append(origin, "end")
       ELSE UNCHANGED <<grids, origin>>
    /\ pc' = "print_initial"
    /\ UNCHANGED <<stdin, written, current_grid, out, seen200, call>>

\* "if len(grids) >= 1: print_grid(initial label, grids[0])"
PrintInitial ==
    /\ pc = "print_initial"
    /\ out' = IF Len(grids) >= 1
              THEN out \o print_grid(LabelInitial, grids[1])
              ELSE out
    /\ pc' = "print_solved"
    /\ UNCHANGED <<stdin, written, current_grid, grids, origin, seen200, call>>

\* NoteDue with the row length in place of the grid length.
NoteDueAtSide(gs) == Len(gs) = 1 /\ Len(gs[1]) = Side

\* "elif len(grids) == 1 and len(grids[0]) == 81"
NoteDue(gs) == Len(gs) = 1 /\ Len(gs[1]) = GridSize

\* SolvedGrid that takes the first grid again.
SolvedGridFirst(gs) == gs[1]

\* The grid printed under the solved label.
SolvedGrid(gs) == gs[2]

\* print("\n" + note)
NoteLines == <<<<>>, NoteText>>

PrintSolved ==
    /\ pc = "print_solved"
    /\ out' = IF Len(grids) >= 2
              THEN out \o print_grid(LabelSolved, SolvedGrid(grids))
              ELSE IF NoteDue(grids) THEN out \o NoteLines
              ELSE out
    /\ pc' = "done"
    /\ UNCHANGED <<stdin, written, current_grid, grids, origin, seen200, call>>

Next ==
    \/ \E b \in Blocks : Write(b)
    \/ ReadLine
    \/ EndOfInput
    \/ PrintInitial
    \/ PrintSolved

Spec == Init /\ [][Next]_vars

(***************************************************************************)
(* print_grid on its own: the arguments are drawn from a family of grids   *)
(* of every length 0..81 and the call prints to an empty output.           *)
(***************************************************************************)
Patterns == {"zeros", "five", "stream", "sparse", "digits"}

PatternVal(p, i) ==
    CASE p = "zeros"  -> 0
      [] p = "five"   -> IF i = 1 THEN 5 ELSE 0
      [] p = "stream" -> CellVal(i)
      [] p = "sparse" -> IF i % 3 = 0 THEN 0 ELSE CellVal(i)
      [] OTHER        -> i % 10

RenderGrids == {[i \in 1..n |-> PatternVal(p, i)] : n \in 0..GridSize, p \in Patterns}

InitRender ==
    /\ stdin = <<>>
    /\ written = <<>>
    /\ pc = "render"
    /\ current_grid = <<>>
    /\ grids = <<>>
    /\ out = <<>>
    /\ origin = <<>>
    /\ seen200 = <<>>
    /\ call \in [label : {LabelInitial, LabelSolved}, grid : RenderGrids]

Render ==
    /\ pc = "render"
    /\ out' = out \o print_grid(call.label, call.grid)
    /\ pc' = "done"
    /\ UNCHANGED <<stdin, written, current_grid, grids, origin, seen200, call>>

NextRender == Render

SpecRender == InitRender /\ [][NextRender]_vars

(***************************************************************************)
(* What the producer wrote, line by line: the kind of each line and the    *)
(* value of each cell line.                                                *)
(***************************************************************************)
KindOf(b) == IF b \in RunBlocks THEN "cell" ELSE b

RECURSIVE KindsOf(_)
KindsOf(w) ==
    IF w = <<>> THEN <<>>
    ELSE KindsOf(SubSeq(w, 1, Len(w) - 1))
             \o [i \in 1..BlockLen(w[Len(w)]) |-> KindOf(w[Len(w)])]

\* The kinds of all the lines written.
InputKinds == KindsOf(written)

\* The values of the cell lines among the lines written, in order.
RECURSIVE CellValsOf(_)
CellValsOf(w) ==
    IF w = <<>> THEN <<>>
    ELSE LET front == SubSeq(w, 1, Len(w) - 1)
             b     == w[Len(w)]
         IN  CellValsOf(front)
                 \o (IF b \in RunBlocks
                     THEN [i \in 1..BlockLen(b) |-> CellVal(LinesWritten(front) + i)]
                     ELSE <<>>)

InputCellVals == CellValsOf(written)

\* The 81 values carried by lines p+1 .. p+81 of the input.
BlockAfter(p) == [i \in 1..GridSize |-> CellVal(p + i)]

\* Lines p+1 .. p+81 of the input exist and are all cell lines.
CellsFollow(p) ==
    /\ p + GridSize <= Len(InputKinds)
    /\ \A i \in 1..GridSize : InputKinds[p + i] = "cell"

CellRun(n) == [i \in 1..n |-> "cell"]

RECURSIVE CountBlocks(_, _)
CountBlocks(w, S) ==
    IF w = <<>> THEN 0
    ELSE CountBlocks(SubSeq(w, 1, Len(w) - 1), S)
             + (IF w[Len(w)] \in S THEN BlockLen(w[Len(w)]) ELSE 0)

\* The lines of the blocks in S that have been read so far.
LinesReadOf(S) ==
    CountBlocks(written, S)
        - (IF written # <<>> /\ written[Len(written)] \in S THEN Len(stdin) ELSE 0)

RECURSIVE Flatten(_)
Flatten(gs) ==
    IF gs = <<>> THEN <<>>
    ELSE Flatten(SubSeq(gs, 1, Len(gs) - 1)) \o gs[Len(gs)]

\* a[i..] can be embedded, in order, in b[j..].
RECURSIVE Embeds(_, _, _, _)
Embeds(a, i, b, j) ==
    IF i > Len(a) THEN TRUE
    ELSE IF Len(a) - i > Len(b) - j THEN FALSE
    ELSE IF a[i] = b[j] THEN Embeds(a, i + 1, b, j + 1)
    ELSE Embeds(a, i, b, j + 1)

IsSubsequence(a, b) == Embeds(a, 1, b, 1)

(***************************************************************************)
(* Properties.                                                             *)
(***************************************************************************)
C1Kinds == <<"m100">> \o CellRun(GridSize) \o <<"m200">> \o CellRun(GridSize)

\* C1: for the input 100, 81 cell values, 200, 81 cell values, exactly two
\* grids are collected, equal to the two blocks in order, and the output is
\* the first grid under the initial label followed by the second under the
\* solved label, and nothing else (no note).
C1_TwoBlocksTwoGrids ==
    (pc = "done" /\ LinesWritten(written) = 2 * GridSize + 2 /\ InputKinds = C1Kinds)
        => /\ grids = <<BlockAfter(1), BlockAfter(GridSize + 2)>>
           /\ out = print_grid(LabelInitial, BlockAfter(1))
                        \o print_grid(LabelSolved, BlockAfter(GridSize + 2))

C1_Witness ==
    /\ pc = "done"
    /\ InputKinds = C1Kinds
    /\ Len(grids) = 2
    /\ out # <<>>

\* C2 as stated: the collection never holds more than 2 grids.
C2_AtMostTwoGrids == Len(grids) <= 2

\* The grids of gs the driver renders: the first two, and the note when the
\* only grid is complete.
RenderedOutput(gs) ==
    (IF Len(gs) >= 1 THEN print_grid(LabelInitial, gs[1]) ELSE <<>>)
        \o (IF Len(gs) >= 2 THEN print_grid(LabelSolved, gs[2])
            ELSE IF Len(gs) = 1 /\ Len(gs[1]) = GridSize THEN NoteLines
            ELSE <<>>)

\* C2, amended: the collection holds at most one grid per 81 cell values
\* read plus one per marker-100 line read, which may be more than 2; the
\* driver renders the first two grids at most.
C2_GridCountBound ==
    /\ Len(grids) <= LinesReadOf({"m100"}) + (LinesReadOf(RunBlocks) \div GridSize)
    /\ pc = "done" => out = RenderedOutput(grids)

C2_Witness ==
    /\ pc = "done"
    /\ Len(grids) = 3
    /\ \A i \in 1..3 : Len(grids[i]) = GridSize
    /\ Len(out) = 2 * Len(print_grid(LabelInitial, grids[1]))

\* C3 as stated: whatever precedes a marker 200 that 81 cell values follow
\* immediately, those values are the second grid of the result.
C3_BlockAfter200IsSecondGrid ==
    pc = "done"
        => \A p \in 1..Len(InputKinds) :
               (InputKinds[p] = "m200" /\ CellsFollow(p))
                   => Len(grids) >= 2 /\ grids[2] = BlockAfter(p)

\* C3, amended: the 81 cell values that immediately follow a marker 200
\* are the grid at position k+1 of the result, where k is the number of
\* grids collected when the marker was read: the second grid when one grid
\* had been collected by then, the first or a later one otherwise.
C3_BlockAfter200IsNextGrid ==
    pc = "done"
        => \A n \in 1..Len(seen200) :
               CellsFollow(seen200[n].pos)
                   => /\ InputKinds[seen200[n].pos] = "m200"
                      /\ Len(grids) >= seen200[n].ngrids + 1
                      /\ grids[seen200[n].ngrids + 1] = BlockAfter(seen200[n].pos)

C3_Witness ==
    /\ pc = "done"
    /\ \E n \in 1..Len(seen200) :
           /\ CellsFollow(seen200[n].pos)
           /\ seen200[n].ngrids = 1
           /\ seen200[n].pos > 2
           /\ grids[2] = BlockAfter(seen200[n].pos)

\* C4 as stated: every grid in the collection holds exactly 81 values.
C4_EveryGridHas81 == \A i \in 1..Len(grids) : Len(grids[i]) = GridSize

\* C4, amended: every grid in the collection holds between 1 and 81
\* values, and exactly 81 unless the marker-100 branch appended it.
C4_GridLengths ==
    \A i \in 1..Len(grids) :
        /\ Len(grids[i]) >= 1
        /\ Len(grids[i]) <= GridSize
        /\ origin[i] # "marker100" => Len(grids[i]) = GridSize

C4_Witness ==
    \E i, j \in 1..Len(grids) :
        /\ origin[i] = "marker100" /\ Len(grids[i]) = 1
        /\ origin[j] = "cell" /\ Len(grids[j]) = GridSize

\* A noise line in the terms of the claim: no integer, a negative integer,
\* or an integer >= 100 that is neither marker.
IsNoiseLine(text) ==
    LET p == ParseInt(strip(text))
    IN  \/ ~p.ok
        \/ p.val < 0
        \/ (p.val >= 100 /\ p.val \notin {Marker100, Marker200})

\* C5: reading a noise line changes neither the buffer nor the collection.
C5_NoiseLeavesStateUnchanged ==
    [][(pc = "loop" /\ stdin # <<>> /\ IsNoiseLine(Head(stdin)))
           => (current_grid' = current_grid /\ grids' = grids /\ pc' = pc /\ out' = out)]_vars

C5_Witness ==
    /\ pc = "loop"
    /\ stdin = <<>>
    /\ written # <<>>
    /\ written[Len(written)] = "noise"
    /\ Len(current_grid) = GridSize - 1
    /\ Len(grids) = 1

\* C6: for an input of exactly 81 cell values and nothing else, exactly one
\* grid is collected, equal to the values in order, and the output is that
\* grid under the initial label followed by the note.
C6_Only81Values ==
    (pc = "done" /\ InputKinds = CellRun(GridSize))
        => /\ grids = <<BlockAfter(0)>>
           /\ out = print_grid(LabelInitial, BlockAfter(0)) \o NoteLines

C6_Witness ==
    /\ pc = "done"
    /\ InputKinds = CellRun(GridSize)
    /\ Len(grids) = 1
    /\ Len(out) > Len(NoteLines)

\* The line of the output that holds row i (0-based) of a printed grid.
RowLineOf(i) == 5 + i + (i \div BlockSide)

\* The field of column j (0-based) in a printed row.
FieldOf(row, j) ==
    LET c == 2 + (FieldWidth + 1) * j + 2 * (j \div BlockSide)
    IN  SubSeq(row, c + 1, c + FieldWidth)

\* The field shows the value v in decimal, right-aligned, padded with spaces.
ShowsValue(f, v) ==
    LET t == strip(f)
    IN  /\ Len(f) = FieldWidth
        /\ t # <<>>
        /\ \A k \in 1..Len(t) : t[k] >= AsciiZero /\ t[k] <= AsciiZero + 9
        /\ t[1] # AsciiZero
        /\ DigitsValue(t) = v
        /\ f = Repeat(Space, FieldWidth - Len(t)) \o t

\* C7: print_grid shows '.' in the cell (i, j) when i*9+j is at or beyond
\* the grid's length or the value there is 0, and otherwise the value
\* itself, right-aligned in a field of width 2.
C7_CellDisplay ==
    pc = "done"
        => \A i, j \in 0..(Side - 1) :
               LET f   == FieldOf(out[RowLineOf(i)], j)
                   idx == i * Side + j
               IN  IF idx >= Len(call.grid) \/ call.grid[idx + 1] = 0
                   THEN f = <<Space, Dot>>
                   ELSE ShowsValue(f, call.grid[idx + 1])

C7_Witness ==
    /\ pc = "done"
    /\ Len(call.grid) = GridSize \div 2
    /\ \E k \in 1..Len(call.grid) : call.grid[k] = 0
    /\ \E k \in 1..Len(call.grid) : call.grid[k] >= 10
    /\ \E k \in 1..Len(call.grid) : call.grid[k] \in 1..9

\* C8: reading marker 100 with n >= 1 values in the buffer appends the whole
\* buffer as one grid and empties the buffer; with an empty buffer it leaves
\* the collection as it is.  Any other step that appends a grid appends one
\* grid of exactly 81 values.
C8_Marker100FlushesAnyLength ==
    [][IF pc = "loop" /\ stdin # <<>> /\ written[Len(written)] = "m100"
       THEN /\ current_grid # <<>> => grids' = Append(grids, current_grid)
            /\ current_grid = <<>> => grids' = grids
            /\ current_grid' = <<>>
       ELSE grids' # grids
                => /\ Len(grids') = Len(grids) + 1
                   /\ Len(grids'[Len(grids')]) = GridSize]_vars

C8_Witness ==
    /\ Len(grids) = 2
    /\ origin = <<"marker100", "cell">>
    /\ Len(grids[1]) = GridSize - 1
    /\ current_grid = <<>>

\* C9: each step leaves the collection as it is or appends one grid at its
\* end; at the end of the pass the grids, one after the other, are a
\* subsequence of the cell values of the input.
C9_AppendOnlySubsequence ==
    /\ [][/\ Len(grids') \in {Len(grids), Len(grids) + 1}
          /\ SubSeq(grids', 1, Len(grids)) = grids]_vars
    /\ [](pc = "done" => IsSubsequence(Flatten(grids), InputCellVals))

C9_Witness ==
    /\ pc = "done"
    /\ Len(grids) >= 2
    /\ Len(Flatten(grids)) < Len(InputCellVals)

\* C10: the buffer never holds more than 80 values after a line; every grid
\* of the collection was appended by the 81st cell value or by the
\* marker-100 branch, never by the marker-200 branch or the final flush.
C10_BufferBelow81 ==
    /\ Len(current_grid) <= GridSize - 1
    /\ \A i \in 1..Len(origin) : origin[i] \in {"cell", "marker100"}

C10_Witness ==
    /\ pc = "done"
    /\ Len(written) >= 2
    /\ written[1] = "r80"
    /\ written[2] = "m200"
    /\ Len(current_grid) = GridSize - 1
    /\ seen200 # <<>>
    /\ grids = <<>>

=============================================================================
